---- MODULE Spec2Model ----
(***************************************************************************)
(* Model of whisper-cpu: the command line entry point (main.py), the batch *)
(* walker (batch_process.py, class BatchProcessor) and the helpers of      *)
(* utils.py.  The speech engine and its adapter (whisper_lrc.py) are a     *)
(* collaborator seen only through transcribe_to_lrc: per source file it    *)
(* either succeeds, creating the destination, or raises.                   *)
(*                                                                         *)
(* A path is a pair <<base, suffix>>: base is the path without its last    *)
(* extension, suffix is that extension with its dot ("" when there is      *)
(* none).  The content of a .lrc file is the source it was transcribed     *)
(* from, or Old for a file that was there before the program ran.          *)
(***************************************************************************)
EXTENDS Integers, Sequences, FiniteSets, TLC

VARIABLES
    tree,             \* the entries of the music directory (never modified by the program)
    failing,          \* the audio files on which the engine raises
    lrc,              \* base -> content of base.lrc, Absent when the file does not exist
    args,             \* the parsed command line of the run of main
    rc,               \* what main returned: "none" (nothing yet), "0" or "1"
    ops,              \* calls of process_directory and runs of main started so far
    engineBuilt,      \* WhisperLRCGenerator objects constructed by the current operation
    adapterCalls,     \* calls of transcribe_to_lrc by the current operation
    snap,             \* lrc when the current operation started
    processed_count,  \* BatchProcessor.processed_count
    skipped_count,    \* BatchProcessor.skipped_count
    error_count,      \* BatchProcessor.error_count
    calls,            \* calls of process_directory on the instance, 0 when there is none
    discovered,       \* tasks discovered by all calls of process_directory on the instance
    phase,            \* "idle", or "loop" inside process_directory
    audio_files,      \* the list process_directory built (line 115): <<source, destination>>
    cur,              \* the loop index i of process_directory (line 128)
    status,           \* per task: Pending, InProgress, Skipped, Succeeded, Failed
    skip_existing,    \* the argument of the running process_directory call
    recursive,        \* the argument of the running process_directory call
    base,             \* the three counters when the running call started
    log,              \* what the last finished call of process_directory reported
    ts_in,            \* format_timestamp_lrc: the offset, in milliseconds
    ts_out            \* format_timestamp_lrc: the string returned, as a sequence of characters

vars == <<tree, failing, lrc, args, rc, ops, engineBuilt, adapterCalls, snap,
          processed_count, skipped_count, error_count, calls, discovered,
          phase, audio_files, cur, status, skip_existing, recursive, base,
          log, ts_in, ts_out>>

fsVars    == <<tree, failing>>
cliVars   == <<args, rc>>
opVars    == <<ops, engineBuilt, adapterCalls, snap>>
procVars  == <<processed_count, skipped_count, error_count, calls, discovered>>
callVars  == <<phase, audio_files, cur, status, skip_existing, recursive, base>>
tsVars    == <<ts_in, ts_out>>

----------------------------------------------------------------------------
(* Bounds *)

MaxFiles == 3       \* audio files in the music directory
MaxOps   == 2       \* calls of process_directory, over all instances

----------------------------------------------------------------------------
(* Paths and the file system *)

Root      == <<"music", "">>          \* the music directory itself
AlbumDir  == <<"album", ".mp3">>      \* a directory whose name ends in an audio suffix
Notes     == <<"notes", ".txt">>      \* a file that is not audio
Missing   == <<"missing", ".mp3">>    \* a path that does not exist
NoneArg   == <<"None", "">>           \* an option that was not given

AudioSamples ==
    { <<"song", ".mp3">>, <<"song", ".WAV">>, <<"talk", ".flac">>, <<"sub/clip", ".ogg">> }

Fixtures == { Notes, AlbumDir }

Bases == { e[1] : e \in AudioSamples \cup Fixtures }

Absent == <<"", "">>
Old    == <<"old", "">>

IsDirEntry(e) == e = AlbumDir
InSubdir(e)   == e[1] = "sub/clip"

\* str.lower on the suffixes of the sample paths.
Lower(s) ==
    CASE s = ".WAV" -> ".wav"
      [] s = ".MP3" -> ".mp3"
      [] OTHER      -> s

audio_extensions ==
    { ".mp3", ".mp4", ".wav", ".m4a", ".flac", ".aac", ".ogg",
      ".wma", ".opus", ".mp2", ".m4b", ".m4p", ".webm", ".mkv",
      ".avi", ".mov", ".wmv", ".flv", ".3gp" }

is_audio_file(file_extension) == Lower(file_extension) \in audio_extensions

\* Path.with_suffix: the last extension replaced.
with_suffix(p, suffix) == <<p[1], suffix>>

LrcExists(l, dest) == l[dest[1]] # Absent

\* Everything glob sees under `directory`: the entries of the tree and the .lrc
\* files written so far.  AlbumDir is an empty directory.
Listing(directory, l) ==
    IF directory = Root
    THEN tree \cup { <<b, ".lrc">> : b \in { x \in Bases : l[x] # Absent } }
    ELSE {}

Exists(p) == p = Root \/ p \in tree
IsDir(p)  == p = Root \/ (p \in tree /\ IsDirEntry(p))
IsFile(p) == p[2] = ".lrc" \/ (p \in tree /\ ~IsDirEntry(p))

\* Not the code: a discovery that uses the pattern "**/*" whatever `recursive` is.
AudioTasks_AlwaysRecursive(directory, rec, l) ==
    { <<p, with_suffix(p, ".lrc")>> :
        p \in { q \in Listing(directory, l) :
                  IsFile(q) /\ is_audio_file(Lower(q[2])) } }

\* find_audio_files, lines 41 to 50, as the set of pairs it yields.
AudioTasks(directory, rec, l) ==
    { <<p, with_suffix(p, ".lrc")>> :
        p \in { q \in Listing(directory, l) :
                  /\ rec \/ ~InSubdir(q)
                  /\ IsFile(q)
                  /\ is_audio_file(Lower(q[2])) } }

\* The orders in which glob may yield a set of tasks.
Orders(S) ==
    { f \in [1..Cardinality(S) -> S] : \A i, j \in 1..Cardinality(S) : f[i] = f[j] => i = j }

find_audio_files(directory, rec, l) == Orders(AudioTasks(directory, rec, l))

----------------------------------------------------------------------------
(* The engine, through the adapter *)

EngineRaises(src) == src \in failing \/ IsDirEntry(src)

\* transcribe_to_lrc on success: the destination holds the transcription of src.
TranscribeToLrc(l, src, dest) == [l EXCEPT ![dest[1]] = src]

----------------------------------------------------------------------------
(* BatchProcessor *)

Terminal == {"Skipped", "Succeeded", "Failed"}

Count(st, s) == Cardinality({ k \in DOMAIN st : st[k] = s })

Sum == processed_count + skipped_count + error_count

ZeroCounters == [processed |-> 0, skipped |-> 0, error |-> 0]

\* `if args.input:` and `elif args.batch:` on the sample paths, none of them empty.
Truthy(p) == p # NoneArg

NoArgs == [input |-> NoneArg, batch |-> NoneArg, force |-> FALSE, no_recursive |-> FALSE]

\* The flag `recursive` shows only when the tree holds a file in a subdirectory.
RecChoices == IF \E e \in tree : InSubdir(e) THEN BOOLEAN ELSE {TRUE}

NoCall ==
    /\ phase' = "idle"
    /\ audio_files' = <<>>
    /\ cur' = 0
    /\ status' = <<>>
    /\ skip_existing' = TRUE
    /\ recursive' = TRUE
    /\ base' = ZeroCounters

\* Not the code: skip tests that ignore skip_existing, or the destination.
ShouldSkip_IgnoreFlag(skip, l, dest) == LrcExists(l, dest)

ShouldSkip_Never(skip, l, dest) == FALSE

\* process_file, line 68: the test that decides whether a task is skipped.
ShouldSkip(skip, l, dest) == skip /\ LrcExists(l, dest)

\* Not the code: a skip that is not counted.
IncSkipped_Forgotten(n) == n

\* The three increments of process_file: lines 70, 90 and 95.
IncSkipped(n) == n + 1

IncProcessed(n) == n + 1

IncError(n) == n + 1

\* Not the code: a loop that a failed task ends.
Advance_BreakOnFailure(i, outcome) ==
    IF outcome = "Failed" THEN Len(audio_files) + 1 ELSE i + 1

\* The loop of process_directory, line 128: the task handled after task i, whose
\* process_file call ended in `outcome`.
Advance(i, outcome) == i + 1

\* Not the code: a loop that moves on while transcribe_to_lrc still runs.
WhileTranscribing_NoWait(i) == i + 1

\* The loop index while transcribe_to_lrc runs for task i: the call is synchronous.
WhileTranscribing(i) == i

\* Not the code: an exit code that reports failed tasks.
BatchReturn_ErrorsFatal == IF error_count > 0 THEN "1" ELSE "0"

\* What main returns when process_directory returned: line 169.
BatchReturn == "0"

\* BatchProcessor.__init__, lines 20 to 27.
Construct ==
    /\ engineBuilt' = 1
    /\ processed_count' = 0
    /\ skipped_count' = 0
    /\ error_count' = 0

\* process_directory, lines 112 to 125: discovery, and the early return when
\* nothing was found.  calls0 and disc0 are the calls made and the tasks discovered
\* on the instance before this call.
ProcessDirectoryStart(directory, rec, skip, calls0, disc0) ==
    \E order \in find_audio_files(directory, rec, lrc) :
        /\ calls' = calls0 + 1
        /\ discovered' = disc0 + Len(order)
        /\ IF Len(order) = 0
           THEN /\ NoCall
                /\ log' = <<[kind |-> "empty", total |-> 0, call |-> calls',
                             processed |-> processed_count', skipped |-> skipped_count',
                             error |-> error_count', skip |-> skip, rec |-> rec]>>
                /\ rc' = IF Truthy(args'.batch) THEN BatchReturn ELSE "none"
           ELSE /\ phase' = "loop"
                /\ audio_files' = order
                /\ cur' = 1
                /\ status' = [k \in 1..Len(order) |-> "Pending"]
                /\ skip_existing' = skip
                /\ recursive' = rec
                /\ base' = [processed |-> processed_count', skipped |-> skipped_count',
                            error |-> error_count']
                /\ log' = log
                /\ rc' = "none"

StartOp ==
    /\ phase = "idle"
    /\ rc = "none"
    /\ ops' = ops + 1
    /\ snap' = lrc

\* A caller constructs a BatchProcessor and calls process_directory on the music
\* directory: what main does in lines 153 to 168, and what a library user does.
FreshRun ==
    /\ ops < MaxOps
    /\ StartOp
    /\ Construct
    /\ adapterCalls' = 0
    /\ UNCHANGED <<fsVars, lrc, args, tsVars>>
    /\ \E rec \in RecChoices, skip \in BOOLEAN : ProcessDirectoryStart(Root, rec, skip, 0, 0)

\* A library user calls process_directory again on the BatchProcessor they hold.
ProcessDirectoryAgain ==
    /\ ops < MaxOps
    /\ calls > 0
    /\ StartOp
    /\ engineBuilt' = 0
    /\ adapterCalls' = 0
    /\ UNCHANGED <<fsVars, lrc, args, processed_count, skipped_count, error_count, tsVars>>
    /\ \E rec \in RecChoices, skip \in BOOLEAN :
           ProcessDirectoryStart(Root, rec, skip, calls, discovered)

\* process_file up to the call of the adapter: lines 67 to 82.
ProcessFileBegin ==
    /\ phase = "loop"
    /\ cur \in 1..Len(audio_files)
    /\ status[cur] = "Pending"
    /\ IF ShouldSkip(skip_existing, lrc, audio_files[cur][2])
       THEN /\ skipped_count' = IncSkipped(skipped_count)
            /\ status' = [status EXCEPT ![cur] = "Skipped"]
            /\ cur' = Advance(cur, "Skipped")
            /\ adapterCalls' = adapterCalls
       ELSE /\ status' = [status EXCEPT ![cur] = "InProgress"]
            /\ adapterCalls' = adapterCalls + 1
            /\ cur' = WhileTranscribing(cur)
            /\ skipped_count' = skipped_count
    /\ UNCHANGED <<fsVars, lrc, cliVars, ops, engineBuilt, snap, processed_count,
                   error_count, calls, discovered, phase, audio_files, skip_existing,
                   recursive, base, log, tsVars>>

\* process_file from the adapter's return or exception on: lines 82 to 98.
ProcessFileEnd ==
    /\ phase = "loop"
    /\ \E k \in DOMAIN status :
        /\ status[k] = "InProgress"
        /\ IF EngineRaises(audio_files[k][1])
           THEN /\ error_count' = IncError(error_count)
                /\ status' = [status EXCEPT ![k] = "Failed"]
                /\ cur' = Advance(k, "Failed")
                /\ UNCHANGED <<lrc, processed_count>>
           ELSE /\ lrc' = TranscribeToLrc(lrc, audio_files[k][1], audio_files[k][2])
                /\ processed_count' = IncProcessed(processed_count)
                /\ status' = [status EXCEPT ![k] = "Succeeded"]
                /\ cur' = Advance(k, "Succeeded")
                /\ UNCHANGED error_count
    /\ UNCHANGED <<fsVars, cliVars, opVars, skipped_count, calls, discovered, phase,
                   audio_files, skip_existing, recursive, base, log, tsVars>>

\* The moment process_directory reports: the loop is over, line 137 is next.
ReportPoint ==
    /\ phase = "loop"
    /\ cur > Len(audio_files)
    /\ \A k \in DOMAIN status : status[k] # "InProgress"

\* The end of process_directory, lines 135 to 137, and the return to its caller.
PrintStatistics ==
    /\ ReportPoint
    /\ log' = <<[kind |-> "report", total |-> Len(audio_files), call |-> calls,
                 processed |-> processed_count, skipped |-> skipped_count,
                 error |-> error_count, skip |-> skip_existing, rec |-> recursive]>>
    /\ rc' = IF Truthy(args.batch) THEN BatchReturn ELSE "none"
    /\ NoCall
    /\ UNCHANGED <<fsVars, lrc, args, opVars, procVars, tsVars>>

----------------------------------------------------------------------------
(* main.py *)

CliPaths == AudioSamples \cup Fixtures \cup {Root, Missing}

\* One run of main is one process.
StartRun(input, batch, force, norec) ==
    /\ ops = 0
    /\ StartOp
    /\ args' = [input |-> input, batch |-> batch, force |-> force, no_recursive |-> norec]

\* main returns before it constructed anything.
Rejected(code) ==
    /\ rc' = code
    /\ UNCHANGED <<fsVars, lrc, engineBuilt, adapterCalls, procVars, callVars, log, tsVars>>

\* main with the positional input given: lines 112 to 143.
MainSingle ==
    \E input \in CliPaths :
        /\ StartRun(input, NoneArg, FALSE, FALSE)
        /\ Truthy(input)
        /\ IF ~Exists(input) THEN Rejected("1")
           ELSE IF ~is_audio_file(input[2]) THEN Rejected("1")
           ELSE /\ engineBuilt' = 1
                /\ adapterCalls' = 1
                /\ IF EngineRaises(input)
                   THEN /\ rc' = "1"
                        /\ lrc' = lrc
                   ELSE /\ rc' = "0"
                        /\ lrc' = TranscribeToLrc(lrc, input, with_suffix(input, ".lrc"))
                /\ UNCHANGED <<fsVars, procVars, callVars, log, tsVars>>

\* main with --batch given: lines 146 to 168; process_directory then runs task by
\* task, and PrintStatistics returns to line 169.
MainBatch ==
    \E batch \in CliPaths, force \in BOOLEAN, norec \in BOOLEAN :
        /\ StartRun(NoneArg, batch, force, norec)
        /\ ~Truthy(NoneArg) /\ Truthy(batch)      \* line 112 false, line 146 true
        /\ IF ~IsDir(batch) THEN Rejected("1")
           ELSE /\ Construct
                /\ adapterCalls' = 0
                /\ UNCHANGED <<fsVars, lrc, tsVars>>
                /\ ProcessDirectoryStart(batch, ~norec, ~force, 0, 0)

----------------------------------------------------------------------------
(* utils.format_timestamp_lrc *)

SecondsPerMinute == 60

MsPerMinute == 1000 * SecondsPerMinute

DigitChars == <<"0", "1", "2", "3", "4", "5", "6", "7", "8", "9">>

DigitChar(d) == DigitChars[d + 1]

DigitVal(c) == CHOOSE d \in 0..9 : DigitChars[d + 1] = c

IsDigit(c) == \E d \in 0..9 : DigitChars[d + 1] = c

RECURSIVE Decimal(_)
Decimal(n) == IF n < 10 THEN <<DigitChar(n)>> ELSE Append(Decimal(n \div 10), DigitChar(n % 10))

RECURSIVE ZeroPad(_, _)
ZeroPad(sq, width) == IF Len(sq) >= width THEN sq ELSE ZeroPad(<<"0">> \o sq, width)

\* "%.2f" of a number of milliseconds: the nearest hundredth.  A value half way
\* between two hundredths goes up or down with the binary value of the float.
RoundToCentis(ms, tieUp) ==
    IF ms % 10 = 5
    THEN (ms \div 10) + (IF tieUp THEN 1 ELSE 0)
    ELSE (ms + 5) \div 10

\* f"{x:05.2f}" for x given in hundredths.
Fixed2(centis, width) ==
    ZeroPad(Decimal(centis \div 100) \o <<".">> \o ZeroPad(Decimal(centis % 100), 2), width)

format_timestamp_lrc(ms, tieUp) ==
    LET minutes == ms \div MsPerMinute
        remaining_seconds == ms % MsPerMinute
    IN  <<"[">> \o ZeroPad(Decimal(minutes), 2) \o <<":">>
            \o Fixed2(RoundToCentis(remaining_seconds, tieUp), 5) \o <<"]">>

TsInputs ==
    { m * MsPerMinute + sec * 1000 + f :
        m \in {0, 1, 59, 61}, sec \in {0, 1, 31, 59}, f \in 0..999 }

FormatTimestamp ==
    /\ ts_out = <<>>
    /\ \E tieUp \in BOOLEAN : ts_out' = format_timestamp_lrc(ts_in, tieUp)
    /\ UNCHANGED <<fsVars, lrc, cliVars, opVars, procVars, callVars, log, ts_in>>

----------------------------------------------------------------------------
(* Specifications *)

InitProgram ==
    /\ args = NoArgs
    /\ rc = "none"
    /\ ops = 0
    /\ engineBuilt = 0
    /\ adapterCalls = 0
    /\ processed_count = 0
    /\ skipped_count = 0
    /\ error_count = 0
    /\ calls = 0
    /\ discovered = 0
    /\ phase = "idle"
    /\ audio_files = <<>>
    /\ cur = 0
    /\ status = <<>>
    /\ skip_existing = TRUE
    /\ recursive = TRUE
    /\ base = ZeroCounters
    /\ log = <<>>

InitFs ==
    /\ \E a \in SUBSET AudioSamples :
          /\ Cardinality(a) <= MaxFiles
          /\ tree = a \cup Fixtures
          /\ failing \in SUBSET a
          /\ lrc \in { l \in [Bases -> {Absent, Old}] :
                         \A b \in Bases : l[b] = Old => \E e \in a : e[1] = b }
    /\ snap = lrc

\* The BatchProcessor over its life: fresh runs and repeated calls.
Init ==
    /\ InitFs
    /\ InitProgram
    /\ ts_in = 0
    /\ ts_out = <<>>

Next ==
    \/ FreshRun
    \/ ProcessDirectoryAgain
    \/ ProcessFileBegin
    \/ ProcessFileEnd
    \/ PrintStatistics

Spec == Init /\ [][Next]_vars

\* One run of main, from the command line to its return value.
NextMain ==
    \/ MainSingle
    \/ MainBatch
    \/ ProcessFileBegin
    \/ ProcessFileEnd
    \/ PrintStatistics

SpecMain == Init /\ [][NextMain]_vars

\* format_timestamp_lrc on one offset.
InitFmt ==
    /\ tree = Fixtures
    /\ failing = {}
    /\ lrc = [b \in Bases |-> Absent]
    /\ snap = lrc
    /\ InitProgram
    /\ ts_in \in TsInputs
    /\ ts_out = <<>>

NextFmt == FormatTimestamp

SpecFmt == InitFmt /\ [][NextFmt]_vars

----------------------------------------------------------------------------
(* The claims *)

BaseSum == base.processed + base.skipped + base.error

Src(k)  == audio_files[k][1]

Dest(k) == audio_files[k][2]

\* C1: a failing task never aborts the batch.  While process_directory runs,
\* error_count and processed_count have grown by the number of Failed and of
\* Succeeded tasks, a task is Failed only when the adapter raised on it, every
\* task before the loop index is finished, and the loop can always take its next
\* step; when the statistics are reported every discovered task is finished and
\* each was counted once.
C1_PartialFailureIsolation ==
    phase = "loop" =>
        /\ error_count - base.error = Count(status, "Failed")
        /\ processed_count - base.processed = Count(status, "Succeeded")
        /\ skipped_count - base.skipped = Count(status, "Skipped")
        /\ \A k \in DOMAIN status : status[k] = "Failed" => EngineRaises(Src(k))
        /\ \A k \in DOMAIN status : k < cur => status[k] \in Terminal
        /\ ENABLED (ProcessFileBegin \/ ProcessFileEnd \/ PrintStatistics)
        /\ ReportPoint =>
              /\ \A k \in DOMAIN status : status[k] \in Terminal
              /\ Sum - BaseSum = Len(audio_files)

\* Three files, the engine fails on the second: processed 2, error 1, skipped 0.
C1_Witness ==
    /\ ReportPoint
    /\ status = <<"Succeeded", "Failed", "Succeeded">>
    /\ processed_count = 2
    /\ error_count = 1
    /\ skipped_count = 0

\* C2: when any call of process_directory reports its statistics, the three
\* counters add up to the number of tasks that call discovered.
C2_StatisticsInvariant ==
    ReportPoint => Sum = Len(audio_files)

\* The step by which the task at the loop index leaves Pending.
C3_SkipStep ==
    (phase = "loop" /\ cur \in DOMAIN status /\ status[cur] = "Pending" /\ status' # status)
    => LET exists == LrcExists(lrc, Dest(cur))
           invoked == adapterCalls' = adapterCalls + 1 /\ status'[cur] = "InProgress"
       IN  /\ invoked <=> ~(skip_existing /\ exists)
           /\ ~invoked =>
                 /\ status'[cur] = "Skipped"
                 /\ skipped_count' = skipped_count + 1
                 /\ processed_count' = processed_count
                 /\ error_count' = error_count
                 /\ adapterCalls' = adapterCalls
                 /\ lrc' = lrc
           /\ ~skip_existing => skipped_count' = skipped_count

\* C3: a task leaves Pending by an adapter call if and only if not (skip_existing
\* and its destination exists at that moment); a skipped task adds 1 to
\* skipped_count and changes neither the other counters nor any .lrc file; with
\* skip_existing false no task is ever skipped; main passes skip_existing as the
\* negation of --force.
C3_SkipForcePolicy ==
    /\ [][C3_SkipStep]_vars
    /\ [](phase = "loop" =>
            /\ Truthy(args.batch) => (skip_existing <=> ~args.force)
            /\ ~skip_existing => Count(status, "Skipped") = 0 /\ skipped_count = base.skipped)

\* --force on a destination that was already there: the adapter ran and the old
\* content is gone.
C3_Witness ==
    /\ phase = "loop"
    /\ args.force
    /\ \E k \in DOMAIN status :
          /\ status[k] = "Succeeded"
          /\ snap[Dest(k)[1]] = Old
          /\ lrc[Dest(k)[1]] = Src(k)

\* The second of two batch runs on the music directory, each with a fresh
\* BatchProcessor, skip_existing true and the same `recursive`, is about to report.
SecondRunOfPair ==
    /\ ReportPoint
    /\ calls = 1
    /\ skip_existing
    /\ Len(log) = 1
    /\ log[1].kind = "report"
    /\ log[1].call = 1
    /\ log[1].skip
    /\ log[1].rec = recursive

\* C4 as stated: the second run skips every task and processes none.
C4_Original ==
    SecondRunOfPair => skipped_count = Len(audio_files) /\ processed_count = 0

\* C4, amended: the second run discovers the same number of tasks, processes none,
\* and every task is skipped or fails again; all are skipped when the first run
\* had no error.
C4_Idempotence ==
    SecondRunOfPair =>
        /\ Len(audio_files) = log[1].total
        /\ processed_count = 0
        /\ skipped_count + error_count = Len(audio_files)
        /\ error_count <= log[1].error
        /\ log[1].error = 0 => skipped_count = Len(audio_files)

C4_Witness ==
    /\ SecondRunOfPair
    /\ log[1].processed >= 2
    /\ log[1].error = 0
    /\ skipped_count = Len(audio_files)

\* C5: main in batch mode on an existing directory returns 0 once the walk is
\* over, whatever the tasks' outcomes.
C5_BatchExitCode ==
    (Truthy(args.batch) /\ IsDir(args.batch)) =>
        /\ rc \in {"none", "0"}
        /\ (phase = "idle" /\ ops > 0) => rc = "0"

\* Every file failed, and main still returned 0.
C5_Witness ==
    /\ Truthy(args.batch)
    /\ rc = "0"
    /\ error_count >= 2
    /\ processed_count = 0
    /\ skipped_count = 0

InvalidInput ==
    \/ /\ args.input # NoneArg
       /\ \/ ~Exists(args.input)
          \/ IsDir(args.input)
          \/ Lower(args.input[2]) \notin audio_extensions
    \/ /\ args.batch # NoneArg
       /\ \/ ~Exists(args.batch)
          \/ ~IsDir(args.batch)

\* C6: on a missing path, a path of the wrong type for the mode, or a single
\* file whose suffix is not audio, main returns 1, constructs no engine, calls
\* no adapter and writes no file.
C6_InputValidation ==
    (rc # "none" /\ InvalidInput) =>
        /\ rc = "1"
        /\ engineBuilt = 0
        /\ adapterCalls = 0
        /\ lrc = snap

\* The fields of a timestamp "[MM:SS.ff]".
TsShape ==
    /\ Len(ts_out) = 10
    /\ ts_out[1] = "[" /\ ts_out[4] = ":" /\ ts_out[7] = "." /\ ts_out[10] = "]"
    /\ \A i \in {2, 3, 5, 6, 8, 9} : IsDigit(ts_out[i])

TsMinutes == 10 * DigitVal(ts_out[2]) + DigitVal(ts_out[3])

TsCentis ==
    1000 * DigitVal(ts_out[5]) + 100 * DigitVal(ts_out[6])
        + 10 * DigitVal(ts_out[8]) + DigitVal(ts_out[9])

\* C7: for an offset of at most 3599.99 s the result is "[MM:SS.ff]" with MM the
\* whole minutes, SS.ff between 00.00 and 59.99, and within 0.01 s of the offset;
\* 3661.0 s gives "[61:01.00]".
C7_TimestampFormat ==
    ts_out # <<>> =>
        /\ ts_in <= 3599990 =>
              /\ TsShape
              /\ TsMinutes = ts_in \div MsPerMinute
              /\ TsCentis <= 5999
              /\ 10 * (TsMinutes * 6000 + TsCentis) - ts_in \in -10..10
        /\ ts_in = 3661000 => ts_out = <<"[", "6", "1", ":", "0", "1", ".", "0", "0", "]">>

\* C8: tasks are handled one at a time in the order of discovery: at most one is
\* in progress, a task has left Pending only if the task before it is finished,
\* and every finished task has been counted.
C8_SequentialOrdering ==
    phase = "loop" =>
        /\ Count(status, "InProgress") <= 1
        /\ \A k \in DOMAIN status :
              (k > 1 /\ status[k] # "Pending") => status[k - 1] \in Terminal
        /\ Sum - BaseSum = Cardinality({ k \in DOMAIN status : status[k] \in Terminal })

C8_Witness ==
    /\ phase = "loop"
    /\ Len(status) = 3
    /\ status[1] \in Terminal
    /\ status[2] = "InProgress"
    /\ status[3] = "Pending"

\* A step that stays on the same BatchProcessor: nothing is constructed.
SameInstance == ~(phase = "idle" /\ calls' = 1)

C9_Step ==
    /\ SameInstance =>
          /\ processed_count' >= processed_count
          /\ skipped_count' >= skipped_count
          /\ error_count' >= error_count
    /\ (phase = "loop" /\ phase' = "loop") =>
          Sum' = Sum + (IF \E k \in DOMAIN status :
                              status[k] \notin Terminal /\ status'[k] \in Terminal
                        THEN 1 ELSE 0)
    /\ (SameInstance /\ phase = "idle" /\ phase' = "idle" /\ ops' = ops + 1) =>
          /\ processed_count' = processed_count
          /\ skipped_count' = skipped_count
          /\ error_count' = error_count
          /\ log'[1].kind = "empty"

\* C9: on one BatchProcessor the counters never decrease, every process_file call
\* adds exactly 1 to their sum, between calls the sum is the number of tasks
\* discovered by all the calls so far, and a call that discovers nothing changes
\* no counter and reports no statistics.
C9_CumulativeCounters ==
    /\ [][C9_Step]_vars
    /\ [](phase = "idle" => Sum = discovered)
    /\ [](phase = "loop" =>
            Sum - BaseSum = Cardinality({ k \in DOMAIN status : status[k] \in Terminal }))

\* The second call on an instance reported a sum larger than its own total.
C9_Witness ==
    /\ phase = "idle"
    /\ calls = 2
    /\ Len(log) = 1
    /\ log[1].kind = "report"
    /\ log[1].total >= 1
    /\ Sum = discovered
    /\ Sum > log[1].total

\* The audio files process_directory has to find.
VisibleAudio ==
    { e \in tree : /\ ~IsDirEntry(e)
                   /\ Lower(e[2]) \in audio_extensions
                   /\ recursive \/ ~InSubdir(e) }

LastSucceeded(k) ==
    /\ status[k] = "Succeeded"
    /\ \A j \in DOMAIN status : (j > k /\ Dest(j) = Dest(k)) => status[j] # "Succeeded"

\* C10: the tasks are exactly the visible audio files, each with the .lrc path of
\* the same directory and stem as destination; with skip_existing at most one
\* task per destination succeeds in a run; without it no task is skipped and at
\* the report a destination holds the result of the last task that succeeded on it.
C10_DestinationCollisions ==
    phase = "loop" =>
        /\ { Src(k) : k \in DOMAIN audio_files } = VisibleAudio
        /\ \A k \in DOMAIN audio_files : Dest(k) = <<Src(k)[1], ".lrc">>
        /\ \A j, k \in DOMAIN audio_files : Src(j) = Src(k) => j = k
        /\ skip_existing =>
              \A j, k \in DOMAIN status :
                  (status[j] = "Succeeded" /\ status[k] = "Succeeded" /\ Dest(j) = Dest(k))
                      => j = k
        /\ ~skip_existing => \A k \in DOMAIN status : status[k] # "Skipped"
        /\ (ReportPoint /\ ~skip_existing) =>
              \A k \in DOMAIN status : LastSucceeded(k) => lrc[Dest(k)[1]] = Src(k)

\* song.mp3 and song.WAV share song.lrc: under --force both were transcribed.
C10_Witness ==
    /\ ReportPoint
    /\ ~skip_existing
    /\ \E j, k \in DOMAIN status :
          /\ j < k
          /\ Dest(j) = Dest(k)
          /\ status[j] = "Succeeded"
          /\ status[k] = "Succeeded"
          /\ lrc[Dest(k)[1]] = Src(k)

====
